---- MODULE Spec2Model ----
(***************************************************************************)
(* Flow-log parser (src/src/parser.py): the protocol registry, the lookup  *)
(* table, the per-line classifier, the per-file aggregator and the         *)
(* thread-pool batch coordinator.                                          *)
(*                                                                         *)
(* Strings are sequences of one-character strings, so that str.strip,      *)
(* str.lower, str.isdigit and Python truthiness ("" is falsy) are computed *)
(* and not tabulated.  A CSV file is modelled as csv.DictReader delivers   *)
(* it: its fieldnames and its rows (one record of cells per row).  A flow  *)
(* log line is modelled as the field list line.strip().split() yields.     *)
(***************************************************************************)
EXTENDS Integers, Sequences, FiniteSets, TLC

VARIABLES
    PROTOCOL_MAPPING,     \* parser.py:16, the process-wide registry
    protocol_file,        \* the protocol reference file given to load_protocol_mapping
    load_status,          \* "idle" | "ok" | "error": outcome of load_protocol_mapping
    lookup_table,         \* the dict parse_lookup_table returned
    file_exists,          \* whether open(flow_log_file) succeeds in parse_flow_logs
    line,                 \* the line parse_flow_logs read last (its fields)
    nread,                \* number of lines parse_flow_logs has read
    tag_count,            \* parser.py:98
    port_protocol_count,  \* parser.py:98
    parse_status,         \* "idle" | "reading" | "returned" | "error"
    flow_log_files,       \* argument of process_multiple_files
    lookup_file,          \* the lookup CSV given to process_multiple_files
    max_workers,          \* argument of process_multiple_files
    coord_pc,             \* position of process_multiple_files
    tasks,                \* one record per submitted future
    artifacts,            \* output directory: artifact name -> content
    starts                \* per future: how often a worker picked it up

vars == <<PROTOCOL_MAPPING, protocol_file, load_status, lookup_table, file_exists,
          line, nread, tag_count, port_protocol_count, parse_status,
          flow_log_files, lookup_file, max_workers, coord_pc, tasks, artifacts,
          starts>>

registryVars == <<PROTOCOL_MAPPING, protocol_file, load_status>>
aggregateVars == <<lookup_table, file_exists, line, nread, tag_count,
                   port_protocol_count, parse_status>>
batchVars == <<flow_log_files, lookup_file, max_workers, coord_pc, tasks,
               artifacts, starts>>

---------------------------------------------------------------------------
(* Bounds of the model *)

MaxRows == 2        \* rows of a protocol reference file
MaxLookupRows == 2  \* rows of a lookup table file
MaxLines == 3       \* lines of a flow log file in the aggregator specification
MaxFiles == 3       \* input files of a batch
MaxPoolWidth == 2   \* explicit max_workers values tried besides the default

---------------------------------------------------------------------------
(* Python values *)

\* Optional values: None and a present value.
None == [isNone |-> TRUE, val |-> <<>>]
Some(v) == [isNone |-> FALSE, val |-> v]

\* Truthiness of an optional string: None and "" are falsy.
Truthy(o) == ~o.isNone /\ o.val # <<>>

\* dict.get(key) and dict.get(key, default) on a dict modelled as a function.
DictGet(d, k) == IF k \in DOMAIN d THEN Some(d[k]) ELSE None
DictGetDefault(d, k, default) == IF k \in DOMAIN d THEN d[k] ELSE default

\* d[k] = v on a dict modelled as a function.
DictSet(d, k, v) == [x \in DOMAIN d \cup {k} |-> IF x = k THEN v ELSE d[x]]

\* defaultdict(int): d[k] and d[k] += 1.
CountOf(d, k) == IF k \in DOMAIN d THEN d[k] ELSE 0
Increment(d, k) == DictSet(d, k, CountOf(d, k) + 1)

EmptyDict == <<>>

---------------------------------------------------------------------------
(* Strings *)

UpperCase == <<"A","B","C","D","E","F","G","H","I","J","K","L","M",
               "N","O","P","Q","R","S","T","U","V","W","X","Y","Z">>
LowerCase == <<"a","b","c","d","e","f","g","h","i","j","k","l","m",
               "n","o","p","q","r","s","t","u","v","w","x","y","z">>
Digits == {"0","1","2","3","4","5","6","7","8","9"}
Whitespace == {" ", "\t", "\n", "\r"}

LowerChar(c) ==
    IF \E i \in 1..Len(UpperCase) : UpperCase[i] = c
    THEN LowerCase[CHOOSE i \in 1..Len(UpperCase) : UpperCase[i] = c]
    ELSE c

\* str.lower()
Lower(s) == [i \in 1..Len(s) |-> LowerChar(s[i])]

\* str.strip()
RECURSIVE LStrip(_)
LStrip(s) == IF s # <<>> /\ Head(s) \in Whitespace THEN LStrip(Tail(s)) ELSE s
RECURSIVE RStrip(_)
RStrip(s) ==
    IF s # <<>> /\ s[Len(s)] \in Whitespace
    THEN RStrip(SubSeq(s, 1, Len(s) - 1))
    ELSE s
Strip(s) == RStrip(LStrip(s))

\* str.isdigit()
IsDigit(s) == s # <<>> /\ \A i \in 1..Len(s) : s[i] \in Digits

\* String literals of the program
UNTAGGED == <<"U","n","t","a","g","g","e","d">>
VERSION2 == <<"2">>
NODATA == <<"N","O","D","A","T","A">>
SKIPDATA == <<"S","K","I","P","D","A","T","A">>
EXPECTED_HEADERS == <<"dstport", "protocol", "tag">>
REQUIRED_HEADERS == {"Decimal", "Keyword"}

---------------------------------------------------------------------------
(* Protocol registry: load_protocol_mapping *)

\* Cells a protocol reference file may hold
S_6 == <<"6">>
S_17 == <<"1","7">>
S_tcp == <<"t","c","p">>
S_udp == <<"u","d","p">>
DecimalCells == {S_6, <<" ","6">>, S_17, <<"1","4","6","-","2","5","2">>}
KeywordCells == {<<"T","C","P">>, <<"u","d","p"," ">>, <<>>}
ProtocolRows == [Decimal : DecimalCells, Keyword : KeywordCells]

RECURSIVE SeqsUpTo(_, _)
SeqsUpTo(S, n) ==
    IF n = 0 THEN {<<>>}
    ELSE LET shorter == SeqsUpTo(S, n - 1)
         IN shorter \cup {Append(q, x) : q \in {r \in shorter : Len(r) = n - 1}, x \in S}

\* A file that cannot be opened, files whose header lacks a required column
\* (an empty file has no fieldnames), and files with both columns in any
\* order and with further columns.
ProtocolFiles ==
    {[exists |-> FALSE, fieldnames |-> <<>>, rows |-> <<>>]}
    \cup {[exists |-> TRUE, fieldnames |-> h, rows |-> <<>>] :
            h \in {<<>>, <<"Decimal", "Protocol">>}}
    \cup {[exists |-> TRUE, fieldnames |-> h, rows |-> r] :
            h \in {<<"Decimal", "Keyword">>, <<"Keyword", "Protocol", "Decimal">>},
            r \in SeqsUpTo(ProtocolRows, MaxRows)}

Range(q) == {q[i] : i \in 1..Len(q)}

\* parser.py:32-37, one iteration of the row loop
ProtocolRow_first_wins(mapping, row) ==
    LET decimal == Strip(row.Decimal)
        keyword == Lower(Strip(row.Keyword))
    IN IF IsDigit(decimal) /\ decimal \notin DOMAIN mapping
       THEN DictSet(mapping, decimal, keyword)
       ELSE mapping

ProtocolRow(mapping, row) ==
    LET decimal == Strip(row.Decimal)
        keyword == Lower(Strip(row.Keyword))
    IN IF IsDigit(decimal)
       THEN DictSet(mapping, decimal, keyword)
       ELSE mapping

\* parser.py:31-37, the row loop
RECURSIVE ProtocolRows_loop(_, _)
ProtocolRows_loop(mapping, rows) ==
    IF rows = <<>> THEN mapping
    ELSE ProtocolRows_loop(ProtocolRow(mapping, Head(rows)), Tail(rows))

\* parser.py:18-43: the mapping is cleared first; a missing file, a header
\* without both columns, or no valid row raises.
load_protocol_mapping(file) ==
    IF ~file.exists THEN [status |-> "error", mapping |-> EmptyDict]
    ELSE IF ~(REQUIRED_HEADERS \subseteq Range(file.fieldnames))
    THEN [status |-> "error", mapping |-> EmptyDict]
    ELSE LET m == ProtocolRows_loop(EmptyDict, file.rows)
         IN [status |-> IF m = EmptyDict THEN "error" ELSE "ok", mapping |-> m]

\* Registries a successful load can leave in PROTOCOL_MAPPING
Registries ==
    {load_protocol_mapping(f).mapping :
        f \in {g \in ProtocolFiles : load_protocol_mapping(g).status = "ok"}}

\* A mapping left by an earlier load
StaleMapping == (<<"1">> :> <<"i","c","m","p">>)

IdleAggregate ==
    /\ lookup_table = EmptyDict
    /\ file_exists = FALSE
    /\ line = <<>>
    /\ nread = 0
    /\ tag_count = EmptyDict
    /\ port_protocol_count = EmptyDict
    /\ parse_status = "idle"

IdleBatch ==
    /\ flow_log_files = <<>>
    /\ lookup_file = [exists |-> FALSE, fieldnames |-> <<>>, rows |-> <<>>]
    /\ max_workers = 1
    /\ coord_pc = "idle"
    /\ tasks = <<>>
    /\ artifacts = EmptyDict
    /\ starts = <<>>

InitRegistry ==
    /\ PROTOCOL_MAPPING \in {EmptyDict, StaleMapping}
    /\ protocol_file \in ProtocolFiles
    /\ load_status = "idle"
    /\ IdleAggregate
    /\ IdleBatch

LoadProtocolMapping ==
    /\ load_status = "idle"
    /\ LET r == load_protocol_mapping(protocol_file)
       IN /\ PROTOCOL_MAPPING' = r.mapping
          /\ load_status' = r.status
    /\ UNCHANGED <<protocol_file, aggregateVars, batchVars>>

NextRegistry == LoadProtocolMapping

SpecRegistry == InitRegistry /\ [][NextRegistry]_vars

---------------------------------------------------------------------------
(* Lookup table: parse_lookup_table *)

S_80 == <<"8","0">>
S_443 == <<"4","4","3">>
S_web == <<"w","e","b">>
S_empty == <<>>
PortCells == {S_80}
ProtocolCells == {<<"T","C","P">>, S_udp}
TagCells == {S_web, S_empty, UNTAGGED}
LookupRows == [dstport : PortCells, protocol : ProtocolCells, tag : TagCells]

\* A file that cannot be opened, files whose header is not exactly
\* dstport,protocol,tag (no header, a column missing, columns reordered), and
\* files with the expected header.
MissingFile == [exists |-> FALSE, fieldnames |-> <<>>, rows |-> <<>>]
LookupFiles ==
    {MissingFile}
    \cup {[exists |-> TRUE, fieldnames |-> h, rows |-> <<>>] :
            h \in {<<>>, <<"dstport", "protocol">>}}
    \cup {[exists |-> TRUE, fieldnames |-> <<"protocol", "dstport", "tag">>,
           rows |-> <<[dstport |-> S_80, protocol |-> S_tcp, tag |-> S_web]>>]}
    \cup {[exists |-> TRUE, fieldnames |-> EXPECTED_HEADERS, rows |-> r] :
            r \in SeqsUpTo(LookupRows, MaxLookupRows)}

\* parser.py:59-60, the row loop
RECURSIVE LookupRows_loop(_, _)
LookupRows_loop(lookup, rows) ==
    IF rows = <<>> THEN lookup
    ELSE LET row == Head(rows)
         IN LookupRows_loop(
                DictSet(lookup, <<row.dstport, Lower(row.protocol)>>, row.tag),
                Tail(rows))

\* A load that accepts any header and an empty table
parse_lookup_table_lenient(file) ==
    IF ~file.exists THEN [status |-> "error", table |-> EmptyDict]
    ELSE [status |-> "ok", table |-> LookupRows_loop(EmptyDict, file.rows)]

\* parser.py:49-68
parse_lookup_table(file) ==
    IF ~file.exists THEN [status |-> "error", table |-> EmptyDict]
    ELSE IF file.fieldnames # EXPECTED_HEADERS
    THEN [status |-> "error", table |-> EmptyDict]
    ELSE LET lookup == LookupRows_loop(EmptyDict, file.rows)
         IN IF lookup = EmptyDict
            THEN [status |-> "error", table |-> EmptyDict]
            ELSE [status |-> "ok", table |-> lookup]

\* Tables a successful parse_lookup_table can return
LookupTables ==
    {parse_lookup_table(f).table :
        f \in {g \in LookupFiles : parse_lookup_table(g).status = "ok"}}

---------------------------------------------------------------------------
(* Line classifier: process_flow_log_line *)

ExpectedFields == 14
S_x == <<"x">>
S_OK == <<"O","K">>

\* The fields of a line of n fields: parts[0] the version, parts[6] the
\* destination port, parts[7] the protocol number, parts[-1] the status.
MkLine(n, version, dstport, protocol_num, status) ==
    [i \in 1..n |->
        IF i = n THEN status
        ELSE IF i = 1 THEN version
        ELSE IF i = 7 THEN dstport
        ELSE IF i = 8 THEN protocol_num
        ELSE S_x]

\* Lines of 14 fields in every combination of version, port, protocol number
\* and status, and a blank, a short and a long line.
FlowLines ==
    {MkLine(ExpectedFields, v, p, n, st) :
        v \in {VERSION2, <<"1">>}, p \in {S_80, S_443},
        n \in {S_6, S_17, <<"9","9">>}, st \in {S_OK, NODATA, SKIPDATA}}
    \cup {MkLine(k, VERSION2, S_80, S_6, S_OK) :
            k \in {0, ExpectedFields - 1, ExpectedFields + 1}}

Skipped == [tag |-> None, port_protocol |-> None]

\* The classifier without the log-status check
process_flow_log_line_no_status(parts, lookup) ==
    IF Len(parts) # ExpectedFields THEN Skipped
    ELSE LET dstport == parts[7]
             protocol_num == parts[8]
             version == parts[1]
             protocol == DictGet(PROTOCOL_MAPPING, protocol_num)
         IN IF version # VERSION2 THEN Skipped
            ELSE IF ~Truthy(protocol) THEN Skipped
            ELSE LET tag == DictGetDefault(lookup, <<dstport, protocol.val>>, UNTAGGED)
                 IN IF tag = UNTAGGED
                    THEN [tag |-> Some(tag), port_protocol |-> None]
                    ELSE [tag |-> Some(tag),
                          port_protocol |-> Some(<<dstport, protocol.val>>)]

\* parser.py:70-94; PROTOCOL_MAPPING is the module global
process_flow_log_line(parts, lookup) ==
    IF Len(parts) # ExpectedFields THEN Skipped
    ELSE LET dstport == parts[7]
             protocol_num == parts[8]
             version == parts[1]
             status == parts[Len(parts)]
             protocol == DictGet(PROTOCOL_MAPPING, protocol_num)
         IN IF version # VERSION2 THEN Skipped
            ELSE IF status \in {NODATA, SKIPDATA} THEN Skipped
            ELSE IF ~Truthy(protocol) THEN Skipped
            ELSE LET tag == DictGetDefault(lookup, <<dstport, protocol.val>>, UNTAGGED)
                 IN IF tag = UNTAGGED
                    THEN [tag |-> Some(tag), port_protocol |-> None]
                    ELSE [tag |-> Some(tag),
                          port_protocol |-> Some(<<dstport, protocol.val>>)]

---------------------------------------------------------------------------
(* File aggregator: parse_flow_logs *)

\* parser.py:103-107, one iteration of the line loop
count_line(counts, parts, lookup) ==
    LET r == process_flow_log_line(parts, lookup)
    IN [tag_count |->
            IF Truthy(r.tag) THEN Increment(counts.tag_count, r.tag.val)
            ELSE counts.tag_count,
        port_protocol_count |->
            IF Truthy(r.port_protocol)
            THEN Increment(counts.port_protocol_count, r.port_protocol.val)
            ELSE counts.port_protocol_count]

\* An end-of-file check on the port/protocol counts instead of the tag counts
end_of_file_status_pairs(counts) ==
    IF counts.port_protocol_count = EmptyDict THEN "error" ELSE "returned"

\* parser.py:109-114: no tag counted raises, otherwise the counts are returned
end_of_file_status(counts) ==
    IF counts.tag_count = EmptyDict THEN "error" ELSE "returned"

\* A representative protocol file whose load leaves mapping m
FileLoading(m) ==
    CHOOSE f \in ProtocolFiles :
        load_protocol_mapping(f) = [status |-> "ok", mapping |-> m]

InitAggregate ==
    /\ PROTOCOL_MAPPING \in Registries
    /\ protocol_file = FileLoading(PROTOCOL_MAPPING)
    /\ load_status = "ok"
    /\ lookup_table \in LookupTables
    /\ file_exists \in BOOLEAN
    /\ line = <<>>
    /\ nread = 0
    /\ tag_count = EmptyDict
    /\ port_protocol_count = EmptyDict
    /\ parse_status = "idle"
    /\ IdleBatch

\* parser.py:100-101 and 110-112: open() raises FileNotFoundError, re-raised
OpenFails ==
    /\ parse_status = "idle"
    /\ ~file_exists
    /\ parse_status' = "error"
    /\ UNCHANGED <<registryVars, lookup_table, file_exists, line, nread, tag_count,
                   port_protocol_count, batchVars>>

\* parser.py:101
OpenFile ==
    /\ parse_status = "idle"
    /\ file_exists
    /\ parse_status' = "reading"
    /\ UNCHANGED <<registryVars, lookup_table, file_exists, line, nread, tag_count,
                   port_protocol_count, batchVars>>

\* parser.py:102-107: the next line of the file
ReadLine ==
    /\ parse_status = "reading"
    /\ nread < MaxLines
    /\ \E parts \in FlowLines :
          LET c == count_line([tag_count |-> tag_count,
                               port_protocol_count |-> port_protocol_count],
                              parts, lookup_table)
          IN /\ line' = parts
             /\ tag_count' = c.tag_count
             /\ port_protocol_count' = c.port_protocol_count
    /\ nread' = nread + 1
    /\ UNCHANGED <<registryVars, lookup_table, file_exists, parse_status, batchVars>>

\* parser.py:109-114: the file is exhausted
EndOfFile ==
    /\ parse_status = "reading"
    /\ parse_status' = end_of_file_status([tag_count |-> tag_count,
                                           port_protocol_count |-> port_protocol_count])
    /\ UNCHANGED <<registryVars, lookup_table, file_exists, line, nread, tag_count,
                   port_protocol_count, batchVars>>

NextAggregate == OpenFails \/ OpenFile \/ ReadLine \/ EndOfFile

SpecAggregate == InitAggregate /\ [][NextAggregate]_vars

---------------------------------------------------------------------------
(* Batch coordinator: process_single_file, process_multiple_files *)

DEFAULT_MAX_WORKERS == 4

\* A path is the sequence of its components; os.path.basename keeps the last.
Basename(path) == path[Len(path)]

\* parser.py:140, the artifact's name in the output directory
OutputName(path) == <<Basename(path), "_output.csv">>

\* The file system the batch runs on: two logs of the same base name in two
\* directories, a log that does not exist, and a log of no-data lines only.
Path_a_x == <<"a", "x.log">>
Path_b_x == <<"b", "x.log">>
Path_a_y == <<"a", "y.log">>
Path_a_z == <<"a", "z.log">>
Paths == {Path_a_x, Path_b_x, Path_a_y, Path_a_z}
FileSystem ==
    [path \in Paths |->
        IF path = Path_a_x
        THEN [exists |-> TRUE,
              lines |-> <<MkLine(ExpectedFields, VERSION2, S_80, S_6, S_OK)>>]
        ELSE IF path = Path_b_x
        THEN [exists |-> TRUE,
              lines |-> <<MkLine(ExpectedFields, VERSION2, S_443, S_6, S_OK),
                          MkLine(ExpectedFields, VERSION2, S_80, S_17, S_OK),
                          MkLine(ExpectedFields, VERSION2, S_80, S_6, S_OK)>>]
        ELSE IF path = Path_a_z
        THEN [exists |-> TRUE,
              lines |-> <<MkLine(ExpectedFields, VERSION2, S_80, S_6, NODATA), <<>>>>]
        ELSE [exists |-> FALSE, lines |-> <<>>]]

EmptyCounts == [tag_count |-> EmptyDict, port_protocol_count |-> EmptyDict]

\* parser.py:102-107, the line loop over a whole file
RECURSIVE count_lines(_, _, _)
count_lines(counts, lines, lookup) ==
    IF lines = <<>> THEN counts
    ELSE count_lines(count_line(counts, Head(lines), lookup), Tail(lines), lookup)

\* parser.py:96-114 on a file of the file system
parse_flow_logs(path, lookup) ==
    IF ~FileSystem[path].exists THEN [status |-> "error", counts |-> EmptyCounts]
    ELSE LET counts == count_lines(EmptyCounts, FileSystem[path].lines, lookup)
         IN [status |-> end_of_file_status(counts), counts |-> counts]

\* The registry main() loaded before the batch
BatchProtocolFile ==
    [exists |-> TRUE, fieldnames |-> <<"Decimal", "Keyword">>,
     rows |-> <<[Decimal |-> S_6, Keyword |-> <<"T","C","P">>],
                [Decimal |-> S_17, Keyword |-> <<"u","d","p"," ">>]>>]

\* Lookup files a batch is started with
BatchLookupFiles == {f \in LookupFiles : Len(f.rows) <= 1}

InitBatch ==
    /\ protocol_file = BatchProtocolFile
    /\ PROTOCOL_MAPPING = load_protocol_mapping(BatchProtocolFile).mapping
    /\ load_status = "ok"
    /\ IdleAggregate
    /\ flow_log_files \in SeqsUpTo(Paths, MaxFiles)
    /\ lookup_file \in BatchLookupFiles
    /\ max_workers \in (1..MaxPoolWidth) \cup {DEFAULT_MAX_WORKERS}
    /\ coord_pc = "start"
    /\ tasks = <<>>
    /\ artifacts = EmptyDict
    /\ starts = <<>>

InProgress == {"running", "parsed", "writing"}
Finished == {"done", "failed", "cancelled"}
NumInProgress(ts) == Cardinality({i \in 1..Len(ts) : ts[i].pc \in InProgress})

\* A pool that starts a queued task whenever one is queued
WorkerAvailable_unbounded(ts, width) == TRUE

\* parser.py:156, ThreadPoolExecutor(max_workers): a queued task starts only
\* while fewer than max_workers tasks are in progress
WorkerAvailable(ts, width) == NumInProgress(ts) < width

\* A failure that also cancels the tasks still queued
on_task_error_cancel_queued(ts, i) ==
    [j \in 1..Len(ts) |->
        IF j = i THEN [ts[j] EXCEPT !.pc = "failed"]
        ELSE IF ts[j].pc = "pending" THEN [ts[j] EXCEPT !.pc = "cancelled"]
        ELSE ts[j]]

\* parser.py:143-144: the exception is logged and swallowed in the task
on_task_error(ts, i) == [ts EXCEPT ![i].pc = "failed"]

\* parser.py:148-154 (lookup load fails: log and return) and 156-157
\* (one future submitted per element of flow_log_files)
LoadAndSubmit ==
    /\ coord_pc = "start"
    /\ LET r == parse_lookup_table(lookup_file)
       IN IF r.status = "error"
          THEN /\ coord_pc' = "returned"
               /\ UNCHANGED <<lookup_table, tasks, starts>>
          ELSE /\ coord_pc' = "waiting"
               /\ lookup_table' = r.table
               /\ tasks' = [i \in 1..Len(flow_log_files) |->
                               [pc |-> "pending", path |-> flow_log_files[i],
                                counts |-> EmptyCounts]]
               /\ starts' = [i \in 1..Len(flow_log_files) |-> 0]
    /\ UNCHANGED <<registryVars, file_exists, line, nread, tag_count,
                   port_protocol_count, parse_status, flow_log_files, lookup_file,
                   max_workers, artifacts>>

UnchangedByTask ==
    UNCHANGED <<registryVars, aggregateVars, flow_log_files, lookup_file,
                max_workers, coord_pc>>

\* A worker takes the oldest queued future (the work queue is FIFO)
StartTask(i) ==
    /\ coord_pc = "waiting"
    /\ tasks[i].pc = "pending"
    /\ \A j \in 1..(i - 1) : tasks[j].pc # "pending"
    /\ WorkerAvailable(tasks, max_workers)
    /\ tasks' = [tasks EXCEPT ![i].pc = "running"]
    /\ starts' = [starts EXCEPT ![i] = @ + 1]
    /\ UNCHANGED artifacts
    /\ UnchangedByTask

\* parser.py:139, parse_flow_logs in the task; 143-144 when it raises
ParseTask(i) ==
    /\ tasks[i].pc = "running"
    /\ LET r == parse_flow_logs(tasks[i].path, lookup_table)
       IN IF r.status = "error"
          THEN tasks' = on_task_error(tasks, i)
          ELSE tasks' = [tasks EXCEPT ![i].pc = "parsed", ![i].counts = r.counts]
    /\ UNCHANGED <<artifacts, starts>>
    /\ UnchangedByTask

\* parser.py:119, open(output_file, "w") truncates the artifact
OpenOutput(i) ==
    /\ tasks[i].pc = "parsed"
    /\ tasks' = [tasks EXCEPT ![i].pc = "writing"]
    /\ artifacts' = DictSet(artifacts, OutputName(tasks[i].path),
                            [written |-> FALSE, counts |-> EmptyCounts,
                             residue |-> FALSE])
    /\ UNCHANGED starts
    /\ UnchangedByTask

\* parser.py:120-129, the rows are flushed at offset 0 when the file is
\* closed: onto a truncated artifact they are its whole content; onto what
\* another task flushed since this task's open, bytes of the other content
\* may remain behind them.
CloseOutput(i) ==
    /\ tasks[i].pc = "writing"
    /\ tasks' = [tasks EXCEPT ![i].pc = "done"]
    /\ LET name == OutputName(tasks[i].path)
           old == artifacts[name]
       IN \E residue \in BOOLEAN :
             /\ residue => (old.written /\ (old.counts # tasks[i].counts \/ old.residue))
             /\ artifacts' = DictSet(artifacts, name,
                                     [written |-> TRUE, counts |-> tasks[i].counts,
                                      residue |-> residue])
    /\ UNCHANGED starts
    /\ UnchangedByTask

\* parser.py:158-162 and the exit of the with block: every future is awaited
Return ==
    /\ coord_pc = "waiting"
    /\ \A i \in 1..Len(tasks) : tasks[i].pc \in Finished
    /\ coord_pc' = "returned"
    /\ UNCHANGED <<registryVars, aggregateVars, flow_log_files, lookup_file,
                   max_workers, tasks, artifacts, starts>>

NextBatch ==
    \/ LoadAndSubmit
    \/ \E i \in 1..Len(tasks) : StartTask(i)
    \/ \E i \in 1..Len(tasks) : ParseTask(i)
    \/ \E i \in 1..Len(tasks) : OpenOutput(i)
    \/ \E i \in 1..Len(tasks) : CloseOutput(i)
    \/ Return

SpecBatch == InitBatch /\ [][NextBatch]_vars

---------------------------------------------------------------------------
(* Classifier and aggregator claims *)

\* Conditions on the raw fields of a line
HasFields(parts) == Len(parts) = ExpectedFields
IsVersion2(parts) == parts[1] = VERSION2
HasData(parts) == parts[Len(parts)] \notin {NODATA, SKIPDATA}
InRegistry(parts) == parts[8] \in DOMAIN PROTOCOL_MAPPING
WellFormed(parts) == HasFields(parts) /\ IsVersion2(parts) /\ HasData(parts)
KeyOf(parts) == <<parts[7], PROTOCOL_MAPPING[parts[8]]>>

\* parse_flow_logs has just read line'
LineRead == nread' = nread + 1

\* C1: a line that resolves to a lookup entry whose tag is not "Untagged"
\* increments TagCounts[tag] and PortProtocolCounts[(port, protocol)] by one,
\* whatever the tag string.
C1_MatchedIncrementsBoth ==
    [][(/\ LineRead
        /\ WellFormed(line')
        /\ InRegistry(line')
        /\ KeyOf(line') \in DOMAIN lookup_table
        /\ lookup_table[KeyOf(line')] # UNTAGGED)
       => /\ CountOf(tag_count', lookup_table[KeyOf(line')])
               = CountOf(tag_count, lookup_table[KeyOf(line')]) + 1
          /\ CountOf(port_protocol_count', KeyOf(line'))
               = CountOf(port_protocol_count, KeyOf(line')) + 1]_vars

\* C2: a valid line with a registered protocol number whose (port, keyword)
\* key is absent from the lookup table increments TagCounts["Untagged"] by
\* one and leaves PortProtocolCounts unchanged, and PortProtocolCounts only
\* ever holds keys of the lookup table with a tag other than "Untagged".
C2_UntaggedCountedNotPaired ==
    /\ [][(/\ LineRead
           /\ WellFormed(line')
           /\ InRegistry(line')
           /\ KeyOf(line') \notin DOMAIN lookup_table)
          => /\ CountOf(tag_count', UNTAGGED) = CountOf(tag_count, UNTAGGED) + 1
             /\ port_protocol_count' = port_protocol_count]_vars
    /\ [](\A k \in DOMAIN port_protocol_count :
            k \in DOMAIN lookup_table /\ lookup_table[k] # UNTAGGED)

\* C3: a line is skipped (no tag, no pair, both counts unchanged) whenever
\* its field count is not 14, its version is not "2", its status is NODATA
\* or SKIPDATA, or its protocol number is not in the registry.
C3_SkipConditions ==
    [][(/\ LineRead
        /\ \/ ~HasFields(line')
           \/ ~IsVersion2(line')
           \/ ~HasData(line')
           \/ ~InRegistry(line'))
       => /\ process_flow_log_line(line', lookup_table) = Skipped
          /\ tag_count' = tag_count
          /\ port_protocol_count' = port_protocol_count]_vars

\* A file whose every line read so far was skipped, the last one for its
\* unregistered protocol number although the lookup table has its port
C3_Witness ==
    /\ nread = MaxLines
    /\ WellFormed(line)
    /\ ~InRegistry(line)
    /\ \E k \in DOMAIN lookup_table : k[1] = line[7] /\ lookup_table[k] # UNTAGGED
    /\ tag_count = EmptyDict
    /\ port_protocol_count = EmptyDict

C10_RegisteredNeverSkipped ==
    (nread >= 1 /\ WellFormed(line) /\ InRegistry(line))
        => ~process_flow_log_line(line, lookup_table).tag.isNone

---------------------------------------------------------------------------
(* Batch claims *)

\* What parse_lookup_table is documented to reject
BadLookupFile(f) ==
    \/ ~f.exists
    \/ f.fieldnames # EXPECTED_HEADERS
    \/ f.rows = <<>>

Submitted == coord_pc \in {"waiting", "returned"} /\ ~BadLookupFile(lookup_file)
Aggregates(path) == parse_flow_logs(path, lookup_table).status = "returned"

\* C5: a task's failure is its own: no task is ever cancelled, and when the
\* batch returns every submitted file has run exactly once, to "failed" if
\* and only if its aggregation fails, and otherwise to "done" with its
\* artifact written.
C5_FailuresIsolated ==
    /\ \A i \in 1..Len(tasks) : tasks[i].pc # "cancelled"
    /\ (coord_pc = "returned" /\ ~BadLookupFile(lookup_file)) =>
          /\ Len(tasks) = Len(flow_log_files)
          /\ \A i \in 1..Len(tasks) :
                /\ starts[i] = 1
                /\ tasks[i].pc = (IF Aggregates(flow_log_files[i])
                                  THEN "done" ELSE "failed")
                /\ Aggregates(flow_log_files[i]) =>
                      /\ OutputName(flow_log_files[i]) \in DOMAIN artifacts
                      /\ artifacts[OutputName(flow_log_files[i])].written

\* A returned batch whose first file could not be opened and whose last file
\* has its artifact
C5_Witness ==
    /\ coord_pc = "returned"
    /\ Len(tasks) >= 2
    /\ flow_log_files[1] = Path_a_y
    /\ tasks[1].pc = "failed"
    /\ tasks[Len(tasks)].pc = "done"
    /\ artifacts[OutputName(flow_log_files[Len(tasks)])].written

\* C6: when the batch returns, every successfully aggregated input file has
\* its artifact holding exactly that file's counts, whatever the paths and
\* the interleaving.
C6_ArtifactHoldsOwnCounts ==
    (coord_pc = "returned" /\ ~BadLookupFile(lookup_file)) =>
        \A i \in 1..Len(flow_log_files) :
            Aggregates(flow_log_files[i]) =>
                /\ OutputName(flow_log_files[i]) \in DOMAIN artifacts
                /\ artifacts[OutputName(flow_log_files[i])] =
                      [written |-> TRUE,
                       counts |-> parse_flow_logs(flow_log_files[i], lookup_table).counts,
                       residue |-> FALSE]

\* C7: when the lookup file is missing, has another header or has no row,
\* the batch returns with no task submitted or started and no artifact.
C7_BadLookupAbortsBatch ==
    (BadLookupFile(lookup_file) /\ coord_pc # "start") =>
        /\ coord_pc = "returned"
        /\ tasks = <<>>
        /\ starts = <<>>
        /\ artifacts = EmptyDict
        /\ lookup_table = EmptyDict

\* A batch over some files aborted for a lookup file with reordered columns
C7_Witness ==
    /\ coord_pc = "returned"
    /\ lookup_file.exists
    /\ lookup_file.fieldnames # EXPECTED_HEADERS
    /\ lookup_file.rows # <<>>
    /\ flow_log_files # <<>>

\* C9: at most max_workers tasks are in progress at any moment, and there is
\* exactly one task per input file, started at most once and, when the batch
\* returns, exactly once.
C9_BoundedPool ==
    /\ NumInProgress(tasks) <= max_workers
    /\ Submitted =>
          /\ Len(tasks) = Len(flow_log_files)
          /\ \A i \in 1..Len(tasks) :
                /\ tasks[i].path = flow_log_files[i]
                /\ starts[i] <= 1
                /\ starts[i] = (IF tasks[i].pc = "pending" THEN 0 ELSE 1)
                /\ coord_pc = "returned" => starts[i] = 1

\* The pool is full while a task is still queued
C9_Witness ==
    /\ NumInProgress(tasks) = max_workers
    /\ \E i \in 1..Len(tasks) : tasks[i].pc = "pending"

---------------------------------------------------------------------------
(* Registry claims *)

HasRegistryHeader(f) == f.exists /\ REQUIRED_HEADERS \subseteq Range(f.fieldnames)

\* Indexes of the rows of the protocol file whose Decimal, stripped, is d
RowsFor(d) ==
    {i \in 1..Len(protocol_file.rows) : Strip(protocol_file.rows[i].Decimal) = d}
FirstRowFor(d) == CHOOSE i \in RowsFor(d) : \A j \in RowsFor(d) : i <= j
LastRowFor(d) == CHOOSE i \in RowsFor(d) : \A j \in RowsFor(d) : j <= i
DigitDecimals ==
    {d \in {Strip(protocol_file.rows[i].Decimal) : i \in 1..Len(protocol_file.rows)} :
        IsDigit(d)}
KeywordOfRow(i) == Lower(Strip(protocol_file.rows[i].Keyword))

====
